---- MODULE Spec2Model ----
(***************************************************************************)
(* Order lifecycle and payment reconciliation of the KhawwWS backend       *)
(* (src/server.js).  Every HTTP handler is an async function: it runs      *)
(* synchronously up to each `await` and the handlers of different requests *)
(* interleave at those points.  A handler is therefore modelled as a       *)
(* sequence of atomic steps, one per awaited database / gateway call that   *)
(* touches shared state; the handlers in flight are kept in the bag        *)
(* `inflight`.  The SELECT that re-reads a row only to build the payload of *)
(* an event, and the emission and answer that follow it, change nothing    *)
(* the handlers share; they are part of the step of the UPDATE before      *)
(* them.  Money is counted in paise (1/100 rupee).                          *)
(***************************************************************************)
EXTENDS Integers, Sequences, FiniteSets, Bags, TLC

-----------------------------------------------------------------------------
(* Bounds of the model *)

NumOrders == 1        \* orders that can be created in one behaviour
MaxInFlight == 2      \* HTTP handlers suspended at an await at the same time
MaxTimers == 2        \* Timeout objects alive at the same time
NotifyCap == 2        \* the newOrder counters saturate here (0, 1, "2 or more")
MaxAttempts == 2      \* length of the gateway's payment-attempt list
MaxRequests == 4      \* HTTP requests received in one behaviour
MaxTime == 120        \* seconds of clock time in one behaviour
TickSeconds == 10     \* the clock advances by this much, or to the next due Timeout

-----------------------------------------------------------------------------
(* Program constants *)

Tolerance == 2            \* Math.abs(paid - total) > 0.02
SubtotalTolerance == 1    \* Math.abs(calculatedSubtotal - subtotal) > 0.01
GstPercent == 5           \* calculatedSubtotal * 0.05
MenuPrice == 10000        \* price of the one menu item of the model, 100.00

NULL == "NULL"
Missing == -1             \* an amount that is absent or that parseFloat turns into NaN

OrderIds == 1..NumOrders
TimerIds == 1..MaxTimers

Owner == "r1"                         \* the restaurant every order is placed at
Restaurants == {"r1", "r2"}           \* rows of restaurant_owners
Callers == {"", "r1", "r2", "rx"}     \* restaurant_uid query parameter values

VARIABLES
    orders,        \* table orders: sequence of rows, the id is the index
    restaurant,    \* is_online / order_notifications of the Owner
    inflight,      \* bag of handler invocations suspended at an await
    timers,        \* TimerIds -> order id the Timeout will auto-reject, 0 = none
    orderTimers,   \* the Map orderTimers: key -> Timeout
    newOrderBy,    \* per order: newOrder events published, per confirmation path
    accepted,      \* orders whose accept returned success while a timer was unfired
    requests,      \* HTTP requests received so far
    out,           \* what the last step answered and emitted
    now,           \* Date.now(), in seconds
    firesAt        \* TimerIds -> the time the Timeout is due, 0 = not scheduled

vars == <<orders, restaurant, inflight, timers, orderTimers, newOrderBy, accepted,
          requests, out, now, firesAt>>

-----------------------------------------------------------------------------
(* Helpers *)

Abs(x) == IF x < 0 THEN -x ELSE x

Min(a, b) == IF a < b THEN a ELSE b

Bump(n) == Min(n + 1, NotifyCap)

\* Map keys are JavaScript values: the string "5" and the number 5 differ.
StrKey(o) == <<"string", o>>
NumKey(o) == <<"number", o>>

MapHas(m, k) == k \in DOMAIN m
MapSet(m, k, v) == [x \in (DOMAIN m) \cup {k} |-> IF x = k THEN v ELSE m[x]]
MapDelete(m, k) == [x \in (DOMAIN m) \ {k} |-> m[x]]

EmptyMap == [x \in {} |-> 0]

Exists(o) == o \in 1..Len(orders)

NoOut ==
    [op |-> "none", order |-> 0, code |-> 0, msg |-> "", events |-> {},
     order_status |-> NULL]

\* an answer whose body carries data.order_status
AnswerData(op, o, code, msg, events, order_status) ==
    [op |-> op, order |-> o, code |-> code, msg |-> msg, events |-> events,
     order_status |-> order_status]

Answer(op, o, code, msg, events) == AnswerData(op, o, code, msg, events, NULL)

\* A suspended handler: kind, next step, order id and the locals it still needs.
Frame(kind, pc, o, ps, os, notify, target, reason) ==
    [kind |-> kind, pc |-> pc, order |-> o, ps |-> ps, os |-> os,
     notify |-> notify, target |-> target, reason |-> reason]

Suspend(f) == inflight (+) SetToBag({f})
Resume(f, g) == (inflight (-) SetToBag({f})) (+) SetToBag({g})
Finish(f) == inflight (-) SetToBag({f})

CanAdmit == BagCardinality(inflight) < MaxInFlight

\* A request arrives.
Receive ==
    /\ requests < MaxRequests
    /\ requests' = requests + 1

SetRow(o, row) == [orders EXCEPT ![o] = row]

-----------------------------------------------------------------------------
Init ==
    /\ orders = <<>>
    /\ restaurant = [is_online |-> 1, order_notifications |-> 1]
    /\ inflight = EmptyBag
    /\ timers = [t \in TimerIds |-> 0]
    /\ orderTimers = EmptyMap
    /\ newOrderBy = [o \in OrderIds |-> [verify |-> 0, webhook |-> 0]]
    /\ accepted = {}
    /\ requests = 0
    /\ out = NoOut
    /\ now = 0
    /\ firesAt = [t \in TimerIds |-> 0]

-----------------------------------------------------------------------------
(* POST /api/orders *)

ExpectedDeliveryFee(sub) == IF sub >= 50000 THEN 0 ELSE 0
ExpectedPackingFee == 0
ExpectedGst(sub) == (sub * GstPercent) \div 100
ExpectedPlatformFee == 0
ExpectedTotal(sub) ==
    sub + ExpectedDeliveryFee(sub) + ExpectedPackingFee + ExpectedGst(sub) + ExpectedPlatformFee

\* Text is a sequence of characters; a NULL text column holds NullText.
NullText == <<NULL>>

\* const responseDeadline = new Date(Date.now() + 10000)
ResponseDeadlineSeconds == 10
ResponseDeadline == now + ResponseDeadlineSeconds

\* A row of orders with, in items, its rows of order_items.
NewRow(status, ps, total, items) ==
    [status |-> status, payment_status |-> ps, rejection_reason |-> NullText,
     auto_rejected |-> NULL, total_price |-> total, restaurant_uid |-> Owner,
     items |-> items, response_deadline |-> ResponseDeadline]

\* Table menu_items1; the ids of MenuItemIds outside its domain have no row.
MenuItems ==
    (1 :> [restaurant_uid |-> "r1", is_available |-> 1, is_deleted |-> 0, price |-> MenuPrice])
    @@ (2 :> [restaurant_uid |-> "r1", is_available |-> 0, is_deleted |-> 0, price |-> MenuPrice])
    @@ (3 :> [restaurant_uid |-> "r1", is_available |-> 1, is_deleted |-> 1, price |-> MenuPrice])
    @@ (4 :> [restaurant_uid |-> "r2", is_available |-> 1, is_deleted |-> 0, price |-> MenuPrice])
    @@ (5 :> [restaurant_uid |-> "r1", is_available |-> 1, is_deleted |-> 0, price |-> 16000])

MenuItemIds == (DOMAIN MenuItems) \cup {6}

\* SelectMenuItem that also returns soft-deleted items
SelectMenuItemWithDeleted(id, restaurant_uid) ==
    /\ id \in DOMAIN MenuItems
    /\ MenuItems[id].restaurant_uid = restaurant_uid
    /\ MenuItems[id].is_available = 1

\* menuItem.length > 0 of SELECT * FROM menu_items1 WHERE id = ? AND
\* restaurant_uid = ? AND is_available = 1 AND is_deleted = 0
SelectMenuItem(id, restaurant_uid) ==
    /\ id \in DOMAIN MenuItems
    /\ MenuItems[id].restaurant_uid = restaurant_uid
    /\ MenuItems[id].is_available = 1
    /\ MenuItems[id].is_deleted = 0

\* the loop over items throws at the first item its SELECT does not return
ItemsFound(items) ==
    \A i \in 1..Len(items) : SelectMenuItem(items[i].menu_item_id, Owner)

PriceOf(id) == IF id \in DOMAIN MenuItems THEN MenuItems[id].price ELSE 0

\* calculatedSubtotal += Number(menuItem[0].price) * Number(item.quantity)
RECURSIVE CalculatedSubtotal(_)
CalculatedSubtotal(items) ==
    IF items = <<>> THEN 0
    ELSE PriceOf(Head(items).menu_item_id) * Head(items).quantity
         + CalculatedSubtotal(Tail(items))

\* one item of the request body
Item(id, quantity) == [menu_item_id |-> id, quantity |-> quantity]

\* The amounts are doubles in the program and hundredths here.  A difference
\* of exactly the tolerance compares by the rounding of the operands:
\* Math.abs(100 - 100.01) is 0.010000000000005116, above 0.01, and with
\* expectedTotal = 160 + 160 * 0.05, Math.abs(expectedTotal - 168.02) is above
\* 0.02.  These are the pairs among the amounts of the model that round that way.
SubtotalRoundsOver == {<<10000, 9999>>, <<10000, 10001>>}
TotalRoundsOver == {<<16800, 16798>>, <<16800, 16802>>}

\* Math.abs(calculatedSubtotal - (subtotal || 0)) > 0.01
SubtotalMismatch(calculatedSubtotal, subtotal) ==
    \/ Abs(calculatedSubtotal - subtotal) > SubtotalTolerance
    \/ <<calculatedSubtotal, subtotal>> \in SubtotalRoundsOver

\* Math.abs(expectedTotal - total_amount) > 0.02
TotalMismatch(expectedTotal, total_amount) ==
    \/ Abs(expectedTotal - total_amount) > Tolerance
    \/ <<expectedTotal, total_amount>> \in TotalRoundsOver

\* Rollback that leaves the inserted row behind
RollbackKeepingRow(msg) ==
    [code |-> 500, msg |-> msg, persisted |-> TRUE, status |-> "payment_pending", ps |-> "pending"]

\* catch (err): connection.rollback(), answer 500 with the error's message
Rollback(msg) == [code |-> 500, msg |-> msg, persisted |-> FALSE, status |-> NULL, ps |-> NULL]

\* GatewayFailure with the transaction rolled back
GatewayFailureRolledBack == Rollback("Payment processing unavailable")

\* catch (cashfreeError): UPDATE to cancelled/failed, commit, answer 500
GatewayFailure ==
    [code |-> 500, msg |-> "Payment processing unavailable",
     persisted |-> TRUE, status |-> "cancelled", ps |-> "failed"]

\* The whole handler runs inside one transaction that commits after the gateway
\* call, so other requests see its effect at one instant.  in: the request body
\* and what the lookups and the gateway return.
CreateOrderResult(in) ==
    LET calculatedSubtotal == CalculatedSubtotal(in.items)
        expectedTotal == ExpectedTotal(calculatedSubtotal)
    IN  IF ~in.restaurantFound THEN Rollback("Restaurant not found")
        ELSE IF restaurant.is_online # 1 THEN Rollback("Restaurant is currently offline")
        ELSE IF ~in.customerFound THEN Rollback("Customer not found")
        ELSE IF ~ItemsFound(in.items) THEN Rollback("Menu item not found or unavailable")
        ELSE IF SubtotalMismatch(calculatedSubtotal, in.subtotal)
            THEN Rollback("Subtotal mismatch")
        ELSE IF TotalMismatch(expectedTotal, in.total_amount)
            THEN Rollback("Total mismatch")
        ELSE IF ~in.itemInsertOk THEN Rollback("INSERT INTO order_items failed")
        ELSE IF ~in.gatewayOk THEN GatewayFailure
        ELSE [code |-> 201, msg |-> "Order created, proceed to payment",
              persisted |-> TRUE, status |-> "payment_pending", ps |-> "pending"]

CreateInputs ==
    [restaurantFound : BOOLEAN, customerFound : BOOLEAN,
     items : {<<Item(1, 1)>>, <<Item(2, 1)>>}, itemInsertOk : {TRUE},
     subtotal : {MenuPrice, MenuPrice + SubtotalTolerance + 1},
     total_amount : {ExpectedTotal(MenuPrice), ExpectedTotal(MenuPrice) + Tolerance + 1},
     gatewayOk : BOOLEAN]

CreateOrderStep(in) ==
    LET r == CreateOrderResult(in) IN
    /\ Receive
    /\ Len(orders) < NumOrders
    /\ orders' = IF r.persisted
                    THEN Append(orders, NewRow(r.status, r.ps, in.total_amount, in.items))
                    ELSE orders
    /\ out' = Answer("createOrder", IF r.persisted THEN Len(orders) + 1 ELSE 0,
                     r.code, r.msg, {})
    /\ UNCHANGED <<restaurant, inflight, timers, orderTimers, newOrderBy, accepted, now, firesAt>>

CreateOrder == \E in \in CreateInputs : CreateOrderStep(in)

\* Submissions that pass the lookups, with menu prices and quantities giving the
\* subtotals 100, 160, 300 and 480, declared amounts around the recomputed ones,
\* and the totals 520 and 529.
PriceInputs ==
    UNION {[restaurantFound : {TRUE}, customerFound : {TRUE},
            items : {items}, itemInsertOk : {TRUE},
            subtotal : {CalculatedSubtotal(items) + d : d \in -2..2},
            total_amount : {ExpectedTotal(CalculatedSubtotal(items)) + d : d \in -3..3}
                           \cup {52000, 52900},
            gatewayOk : BOOLEAN] : items \in {<<Item(id, quantity)>> :
                                                 id \in {1, 5}, quantity \in {1, 3}}}

CreateOrderPriced == \E in \in PriceInputs : CreateOrderStep(in)

\* The items a submission can name: item 1 once or twice, and every other id
\* of the menu once.
SubmittedItems == {Item(1, 2)} \cup {Item(id, 1) : id \in MenuItemIds}

ItemLists == UNION {[1..n -> SubmittedItems] : n \in 1..2}

\* Submissions with correctly declared amounts for every item list, and for
\* the list of one item 1 every combination of failed lookups and wrongly
\* declared amounts.
ItemInputs ==
    UNION {[restaurantFound : {TRUE}, customerFound : {TRUE},
            items : {items}, itemInsertOk : BOOLEAN,
            subtotal : {CalculatedSubtotal(items)},
            total_amount : {ExpectedTotal(CalculatedSubtotal(items))},
            gatewayOk : BOOLEAN] : items \in ItemLists}
    \cup
    [restaurantFound : BOOLEAN, customerFound : BOOLEAN,
     items : {<<Item(1, 1)>>}, itemInsertOk : BOOLEAN,
     subtotal : {MenuPrice, MenuPrice + SubtotalTolerance + 1},
     total_amount : {ExpectedTotal(MenuPrice), ExpectedTotal(MenuPrice) + Tolerance + 1},
     gatewayOk : BOOLEAN]

CreateOrderItems == \E in \in ItemInputs : CreateOrderStep(in)

-----------------------------------------------------------------------------
(* PUT /api/restaurants/:uid/status and
   PUT /api/restaurants/:uid/notification-preferences, for the Owner *)

SetOnline ==
    \E v \in {0, 1} :
        /\ Receive
        /\ restaurant' = [restaurant EXCEPT !.is_online = v]
        /\ out' = Answer("setOnline", 0, 200, "Restaurant status updated successfully", {})
        /\ UNCHANGED <<orders, inflight, timers, orderTimers, newOrderBy, accepted, now, firesAt>>

SetNotificationPreferences ==
    \E v \in {0, 1} :
        /\ Receive
        /\ restaurant' = [restaurant EXCEPT !.order_notifications = v]
        /\ out' = Answer("setPreferences", 0, 200, "Notification preferences updated", {})
        /\ UNCHANGED <<orders, inflight, timers, orderTimers, newOrderBy, accepted, now, firesAt>>

-----------------------------------------------------------------------------
(* POST /api/orders/:orderId/verify-payment *)

\* One payment attempt of the gateway's list.
AttemptAmounts(total) == {total + Tolerance, total + Tolerance + 1, Missing}

Attempts(total) ==
    [payment_status : {"SUCCESS"}, payment_amount : AttemptAmounts(total)]
    \cup [payment_status : {"FAILED"}, payment_amount : {total}]

PaymentLists(total) ==
    UNION {[1..n -> Attempts(total)] : n \in 0..MaxAttempts}

\* payments.find(p => p.payment_status === "SUCCESS"): index of the first, 0 if none
FindSuccessful(payments) ==
    LET hits == {i \in 1..Len(payments) : payments[i].payment_status = "SUCCESS"}
    IN  IF hits = {} THEN 0 ELSE CHOOSE i \in hits : \A j \in hits : i <= j

\* what find returns when no attempt matches
Undefined == [payment_status |-> NULL, payment_amount |-> Missing]

\* const successfulPayment = payments.find(...)
SuccessfulPayment(payments) ==
    LET i == FindSuccessful(payments) IN IF i = 0 THEN Undefined ELSE payments[i]

\* AmountMismatch with a tolerance of 0.03
AmountMismatchLoose(paidAmount, orderAmount) ==
    /\ paidAmount # Missing
    /\ Abs(paidAmount - orderAmount) > Tolerance + 1

\* Math.abs(paidAmount - orderAmount) > 0.02; any comparison with NaN is false
AmountMismatch(paidAmount, orderAmount) ==
    /\ paidAmount # Missing
    /\ Abs(paidAmount - orderAmount) > Tolerance

\* VerifyShortCircuit without the already-verified check
VerifyShortCircuitNoSuccess(row) ==
    IF row.payment_status \in {"failed", "cancelled"} THEN "already_failed"
    ELSE "continue"

\* The checks made on the row just read, before the gateway is called.
VerifyShortCircuit(row) ==
    IF row.payment_status = "success" THEN "already_verified"
    ELSE IF row.payment_status \in {"failed", "cancelled"} THEN "already_failed"
    ELSE "continue"

\* data.order_status of the already-verified answer: the literal "pending"
AlreadyVerifiedStatus(row) == "pending"

\* SELECT the order, answer at once when it is missing or already settled,
\* otherwise call the gateway.
VerifyRead(o) ==
    LET go == Exists(o) /\ VerifyShortCircuit(orders[o]) = "continue" IN
    /\ Receive
    /\ go => CanAdmit
    /\ inflight' = IF go
                      THEN Suspend(Frame("verify", "gateway", o, NULL, NULL, FALSE, NULL, <<>>))
                      ELSE inflight
    /\ out' = IF ~Exists(o) THEN Answer("verify", o, 404, "Order not found", {})
              ELSE IF VerifyShortCircuit(orders[o]) = "already_verified"
                  THEN AnswerData("verify", o, 200, "Payment already verified", {},
                                  AlreadyVerifiedStatus(orders[o]))
              ELSE IF VerifyShortCircuit(orders[o]) = "already_failed"
                  THEN AnswerData("verify", o, 200, "Payment has already failed", {},
                                  orders[o].status)
              ELSE NoOut
    /\ UNCHANGED <<orders, restaurant, timers, orderTimers, newOrderBy, accepted, now, firesAt>>

\* What the handler decides from the gateway's answer and the row it read.
VerifyDecision(successfulPayment, total) ==
    IF successfulPayment = Undefined THEN "no_success"
    ELSE IF AmountMismatch(successfulPayment.payment_amount, total) THEN "mismatch"
    ELSE "success"

\* VerifyGatewayError that marks the order as failed
VerifyGatewayErrorCancelling(f) ==
    /\ f.kind = "verify" /\ f.pc = "gateway"
    /\ orders' = SetRow(f.order, [orders[f.order] EXCEPT !.status = "cancelled",
                                                         !.payment_status = "failed"])
    /\ inflight' = Finish(f)
    /\ out' = Answer("verify", f.order, 500, "Unable to verify payment with payment gateway", {})
    /\ UNCHANGED <<restaurant, timers, orderTimers, newOrderBy, accepted, requests, now, firesAt>>

\* The gateway call fails: the handler answers 500 and writes nothing.
VerifyGatewayError(f) ==
    /\ f.kind = "verify" /\ f.pc = "gateway"
    /\ inflight' = Finish(f)
    /\ out' = Answer("verify", f.order, 500, "Unable to verify payment with payment gateway", {})
    /\ UNCHANGED <<orders, restaurant, timers, orderTimers, newOrderBy, accepted, requests, now, firesAt>>

\* What the handler does with the attempt it found: its UPDATE runs and, for a
\* valid payment, newOrder is emitted and pushed to the restaurant.
VerifySettle(f, successfulPayment) ==
    LET o == f.order
        d == VerifyDecision(successfulPayment, orders[o].total_price)
    IN  /\ f.kind = "verify" /\ f.pc = "gateway"
        /\ orders' = IF d = "success"
                        THEN SetRow(o, [orders[o] EXCEPT !.status = "pending",
                                                         !.payment_status = "success"])
                        ELSE SetRow(o, [orders[o] EXCEPT !.status = "cancelled",
                                                         !.payment_status = "failed"])
        /\ inflight' = Finish(f)
        /\ newOrderBy' = IF d = "success"
                            THEN [newOrderBy EXCEPT ![o].verify = Bump(@)]
                            ELSE newOrderBy
        /\ out' = IF d = "no_success"
                     THEN AnswerData("verify", o, 200, "No successful payment found", {},
                                     "cancelled")
                  ELSE IF d = "mismatch"
                     THEN AnswerData("verify", o, 400, "Payment amount mismatch", {},
                                     "cancelled")
                  ELSE AnswerData("verify", o, 200, "Payment verified successfully",
                                  {<<"restaurant", "newOrder">>, <<"push", "newOrder">>},
                                  "pending")
        /\ UNCHANGED <<restaurant, timers, orderTimers, accepted, requests, now, firesAt>>

\* The gateway answers with its attempt list.
VerifyGateway(f, payments) == VerifySettle(f, SuccessfulPayment(payments))

VerifyPayment ==
    \/ \E o \in OrderIds : VerifyRead(o)
    \/ \E f \in BagToSet(inflight) : VerifyGatewayError(f)
    \/ \E f \in BagToSet(inflight) :
          /\ f.kind = "verify" /\ f.pc = "gateway"
          /\ \E payments \in PaymentLists(orders[f.order].total_price) :
                VerifyGateway(f, payments)

-----------------------------------------------------------------------------
(* POST /api/cashfree/webhook *)

\* A JavaScript value of the body: absent, a number, or a string, which is a
\* sequence of tokens ("order_" is one token, a digit is one token).
Absent == <<"undefined", 0>>
Null == <<"null", 0>>
NaN == <<"NaN", 0>>
Num(n) == <<"number", n>>
Str(s) == <<"string", s>>

\* what `if (value)` tests
IsTruthy(v) ==
    \/ v[1] = "number" /\ v[2] # 0
    \/ v[1] = "string" /\ v[2] # <<>>

Digits == <<"0", "1", "2", "3", "4", "5", "6", "7", "8", "9">>

\* value.toString() of a string or a one-digit number
toString(v) == IF v[1] = "string" THEN v[2] ELSE <<Digits[v[2] + 1]>>

\* s.replace(token, ""): the first occurrence is removed
RECURSIVE Replace(_, _)
Replace(s, token) ==
    IF s = <<>> THEN <<>>
    ELSE IF Head(s) = token THEN Tail(s)
    ELSE <<Head(s)>> \o Replace(Tail(s), token)

\* parseFloat of a number, or of a string that holds no number
ParseFloat(v) == IF v[1] = "number" THEN v ELSE NaN

\* let orderId = null; if (payload?.data?.order?.order_id) ... else if ...
ExtractOrderId(raw) ==
    IF IsTruthy(raw.data_order_order_id)
        THEN Str(Replace(toString(raw.data_order_order_id), "order_"))
    ELSE IF IsTruthy(raw.order_order_id)
        THEN Str(Replace(toString(raw.order_order_id), "order_"))
    ELSE IF IsTruthy(raw.order_id)
        THEN Str(Replace(toString(raw.order_id), "order_"))
    ELSE Null

\* ExtractPaymentStatus that looks at payment_status before payment.payment_status
ExtractPaymentStatusTopFirst(raw) ==
    IF IsTruthy(raw.data_payment_payment_status) THEN raw.data_payment_payment_status
    ELSE IF IsTruthy(raw.payment_status) THEN raw.payment_status
    ELSE IF IsTruthy(raw.payment_payment_status) THEN raw.payment_payment_status
    ELSE IF IsTruthy(raw.data_order_order_status) THEN raw.data_order_order_status
    ELSE Null

\* let paymentStatus = null; if (payload?.data?.payment?.payment_status) ...
ExtractPaymentStatus(raw) ==
    IF IsTruthy(raw.data_payment_payment_status) THEN raw.data_payment_payment_status
    ELSE IF IsTruthy(raw.payment_payment_status) THEN raw.payment_payment_status
    ELSE IF IsTruthy(raw.payment_status) THEN raw.payment_status
    ELSE IF IsTruthy(raw.data_order_order_status) THEN raw.data_order_order_status
    ELSE Null

\* let paymentAmount = null; if (payload?.data?.payment?.payment_amount) ...
ExtractPaymentAmount(raw) ==
    IF IsTruthy(raw.data_payment_payment_amount)
        THEN ParseFloat(raw.data_payment_payment_amount)
    ELSE IF IsTruthy(raw.payment_payment_amount)
        THEN ParseFloat(raw.payment_payment_amount)
    ELSE IF IsTruthy(raw.data_order_order_amount)
        THEN ParseFloat(raw.data_order_order_amount)
    ELSE Null

IdValues == {Absent, Num(0), Num(1), Str(<<"order_", "1">>), Str(<<"2">>)}
StatusValues == {Absent, Str(<<>>), Str(<<"SUCCESS">>), Str(<<"FAILED">>)}
AmountValues == {Absent, Num(0), Num(10500), Str(<<"a">>)}

\* a body that carries none of the shapes
NoShapes ==
    [data_order_order_id |-> Absent, order_order_id |-> Absent, order_id |-> Absent,
     data_payment_payment_status |-> Absent, payment_payment_status |-> Absent,
     payment_status |-> Absent, data_order_order_status |-> Absent,
     data_payment_payment_amount |-> Absent, payment_payment_amount |-> Absent,
     data_order_order_amount |-> Absent]

\* a body in which each shape is absent or holds a value of its own
OwnValues ==
    [data_order_order_id : {Absent, Str(<<"order_", "1">>)},
     order_order_id : {Absent, Str(<<"order_", "2">>)},
     order_id : {Absent, Str(<<"order_", "3">>)},
     data_payment_payment_status : {Absent, Str(<<"SUCCESS">>)},
     payment_payment_status : {Absent, Str(<<"FAILED">>)},
     payment_status : {Absent, Str(<<"PENDING">>)},
     data_order_order_status : {Absent, Str(<<"PAID">>)},
     data_payment_payment_amount : {Absent, Num(10500)},
     payment_payment_amount : {Absent, Num(10501)},
     data_order_order_amount : {Absent, Num(10502)}]

\* Bodies carrying any combination of the shapes of the order id, of the
\* status, or of the amount.
RawPayloads ==
    OwnValues
    \cup
    {[NoShapes EXCEPT !.data_order_order_id = a, !.order_order_id = b, !.order_id = c] :
        a \in IdValues, b \in IdValues, c \in IdValues}
    \cup
    {[NoShapes EXCEPT !.data_payment_payment_status = a, !.payment_payment_status = b,
                      !.payment_status = c, !.data_order_order_status = d] :
        a \in StatusValues, b \in StatusValues, c \in StatusValues, d \in StatusValues}
    \cup
    {[NoShapes EXCEPT !.order_id = Str(<<"2">>), !.data_payment_payment_amount = a,
                      !.payment_payment_amount = b, !.data_order_order_amount = c] :
        a \in AmountValues, b \in AmountValues, c \in AmountValues}

\* The handler parses the body and logs the parsed body and the order id,
\* status and amount it extracted.
WebhookExtract(raw) ==
    /\ Receive
    /\ out' = Answer("webhook", 0, 0, "Extracted",
                     {<<"log", raw, ExtractOrderId(raw), ExtractPaymentStatus(raw),
                        ExtractPaymentAmount(raw)>>})
    /\ UNCHANGED <<orders, restaurant, inflight, timers, orderTimers, newOrderBy, accepted, now, firesAt>>

WebhookParse == \E raw \in RawPayloads : WebhookExtract(raw)

\* The values the handler extracts from the body; order_id 0: none found.
Payloads ==
    [empty : {FALSE},
     order_id : OrderIds,
     payment_status : {NULL, "SUCCESS", "PAID", "FAILED", "CANCELLED"},
     payment_amount : {Missing, 0, ExpectedTotal(MenuPrice),
                       ExpectedTotal(MenuPrice) + Tolerance + 1}]
    \cup
    [empty : BOOLEAN, order_id : {0}, payment_status : {NULL}, payment_amount : {Missing}]

\* if (payload?...payment_amount) paymentAmount = parseFloat(...): a missing or
\* zero amount leaves paymentAmount null, and so does NaN in `if (paymentAmount)`
Truthy(amount) == amount # Missing /\ amount # 0

\* validatePaymentSecurity is called but defined nowhere in the program: the call
\* raises a ReferenceError, which the handler's catch turns into an answer.
\* Lines 1674-1724: the statuses to write and whether to notify.
WebhookDecision(paymentStatus, paymentAmount) ==
    IF paymentStatus \in {"SUCCESS", "PAID"}
        THEN IF Truthy(paymentAmount)
                THEN [throws |-> TRUE, ps |-> NULL, os |-> NULL, notify |-> FALSE]
                ELSE [throws |-> FALSE, ps |-> "success", os |-> "pending", notify |-> TRUE]
    ELSE IF paymentStatus = "FAILED"
        THEN [throws |-> FALSE, ps |-> "failed", os |-> "cancelled", notify |-> FALSE]
    ELSE IF paymentStatus = "CANCELLED"
        THEN [throws |-> FALSE, ps |-> "cancelled", os |-> "cancelled", notify |-> FALSE]
    ELSE [throws |-> FALSE, ps |-> "pending", os |-> "payment_pending", notify |-> FALSE]

\* SECURITY CHECK 1
WebhookAlreadyProcessed(row) == row.payment_status = "success"

\* WebhookCode surfacing an exception to the gateway
WebhookCodeSurfacing(w) == IF w = "exception" THEN 500 ELSE 200

\* res.status(200) on every return of the handler, the catch included
WebhookCode(w) == 200

\* How far the synchronous part after the SELECT gets.
WebhookOutcome(p) ==
    IF p.empty THEN "test"
    ELSE IF p.order_id = 0 THEN "no_order_id"
    ELSE IF ~Exists(p.order_id) THEN "not_found"
    ELSE IF WebhookAlreadyProcessed(orders[p.order_id]) THEN "already_processed"
    ELSE IF WebhookDecision(p.payment_status, p.payment_amount).throws THEN "exception"
    ELSE "update"

WebhookRead(p) ==
    LET w == WebhookOutcome(p)
        d == WebhookDecision(p.payment_status, p.payment_amount)
    IN  /\ Receive
        /\ w = "update" => CanAdmit
        /\ inflight' = IF w = "update"
                          THEN Suspend(Frame("webhook", "write", p.order_id,
                                             d.ps, d.os, d.notify, NULL, <<>>))
                          ELSE inflight
        /\ out' = CASE w = "test" ->
                           Answer("webhook", 0, WebhookCode(w), "Webhook endpoint is working", {})
                    [] w = "no_order_id" ->
                           Answer("webhook", 0, WebhookCode(w), "No order ID found", {})
                    [] w = "not_found" ->
                           Answer("webhook", p.order_id, WebhookCode(w), "Order not found", {})
                    [] w = "already_processed" ->
                           Answer("webhook", p.order_id, WebhookCode(w),
                                  "Payment already processed", {})
                    [] w = "exception" ->
                           Answer("webhook", p.order_id, WebhookCode(w),
                                  "Webhook received but processing failed", {})
                    [] w = "update" -> NoOut
        /\ UNCHANGED <<orders, restaurant, timers, orderTimers, newOrderBy, accepted, now, firesAt>>

\* UPDATE orders SET payment_status = ?, status = ? WHERE id = ?  When the
\* restaurant is not to be notified the handler ends with the customer's event.
WebhookWrite(f) ==
    LET wanted == f.notify /\ f.ps = "success" IN
    /\ f.kind = "webhook" /\ f.pc = "write"
    /\ orders' = SetRow(f.order, [orders[f.order] EXCEPT !.payment_status = f.ps,
                                                         !.status = f.os])
    /\ inflight' = IF wanted THEN Resume(f, [f EXCEPT !.pc = "notify"]) ELSE Finish(f)
    /\ out' = IF wanted THEN NoOut
              ELSE Answer("webhook", f.order, WebhookCode("update"), "Webhook processed",
                          {<<"customer", "orderStatusUpdated">>})
    /\ UNCHANGED <<restaurant, timers, orderTimers, newOrderBy, accepted, requests, now, firesAt>>

RestaurantReachable == restaurant.is_online = 1 /\ restaurant.order_notifications = 1

\* A Timeout id that setTimeout can return: not scheduled, and not held by the
\* Map under another key.
FreeTimers(k) ==
    {t \in TimerIds : /\ timers[t] = 0
                      /\ \A x \in (DOMAIN orderTimers) \ {k} : orderTimers[x] # t}

\* setTimeout(..., 90000)
ResponseWindowSeconds == 90

\* The webhook's orderId is the string left by toString().replace("order_", "").
WebhookTimerKey(o) == StrKey(o)

\* SELECT the restaurant's status; then either start the timer and notify, or go
\* on to mark the order pending_restaurant_online.  The push is not sent on this
\* path: total_price comes back from the driver as a string, so
\* orderData.total_price.toFixed throws inside the try around sendFCMNotification.
WebhookNotify(f) ==
    LET o == f.order
        k == WebhookTimerKey(o)
    IN  /\ f.kind = "webhook" /\ f.pc = "notify"
        /\ IF RestaurantReachable
              THEN /\ FreeTimers(k) # {}
                   /\ LET t == CHOOSE x \in FreeTimers(k) : \A y \in FreeTimers(k) : x <= y
                      IN  /\ timers' = [timers EXCEPT ![t] = o]
                          /\ firesAt' = [firesAt EXCEPT ![t] = now + ResponseWindowSeconds]
                          /\ orderTimers' = MapSet(orderTimers, k, t)
                   /\ newOrderBy' = [newOrderBy EXCEPT ![o].webhook = Bump(@)]
                   /\ inflight' = Finish(f)
                   /\ out' = Answer("webhook", o, WebhookCode("update"), "Webhook processed",
                                    {<<"restaurant", "newOrder">>,
                                     <<"customer", "orderStatusUpdated">>})
              ELSE /\ inflight' = Resume(f, [f EXCEPT !.pc = "offline"])
                   /\ out' = NoOut
                   /\ UNCHANGED <<timers, orderTimers, newOrderBy, firesAt>>
        /\ UNCHANGED <<orders, restaurant, accepted, requests, now>>

\* UPDATE orders SET status = 'pending_restaurant_online' WHERE id = ?
WebhookOffline(f) ==
    /\ f.kind = "webhook" /\ f.pc = "offline"
    /\ orders' = SetRow(f.order, [orders[f.order] EXCEPT !.status = "pending_restaurant_online"])
    /\ inflight' = Finish(f)
    /\ out' = Answer("webhook", f.order, WebhookCode("update"), "Webhook processed",
                     {<<"customer", "orderStatusUpdated">>})
    /\ UNCHANGED <<restaurant, timers, orderTimers, newOrderBy, accepted, requests, now, firesAt>>

Webhook ==
    \/ \E p \in Payloads : WebhookRead(p)
    \/ \E f \in BagToSet(inflight) : WebhookWrite(f)
    \/ \E f \in BagToSet(inflight) : WebhookNotify(f)
    \/ \E f \in BagToSet(inflight) : WebhookOffline(f)

-----------------------------------------------------------------------------
(* PUT /api/orders/:id/accept and PUT /api/orders/:id/reject *)

RECURSIVE TrimLeft(_)
TrimLeft(s) == IF s # <<>> /\ Head(s) = " " THEN TrimLeft(Tail(s)) ELSE s

RECURSIVE TrimRight(_)
TrimRight(s) ==
    IF s # <<>> /\ s[Len(s)] = " " THEN TrimRight(SubSeq(s, 1, Len(s) - 1)) ELSE s

\* trim that leaves the trailing whitespace
TrimLeftOnly(s) == TrimLeft(s)

\* String.prototype.trim
Trim(s) == TrimRight(TrimLeft(s))

\* rejection_reason of the request body; a missing one behaves like ""
Reasons == {<<>>, <<" ">>, <<" ", "a", " ">>}

\* "Order was not accepted within the time limit"
AutoRejectReason == <<"t", "i", "m", "e", "o", "u", "t">>

\* SELECT * FROM orders WHERE id = ? AND restaurant_uid = ? AND status = 'pending'
PendingOrderOf(o, caller) ==
    /\ Exists(o)
    /\ orders[o].restaurant_uid = caller
    /\ orders[o].status = "pending"

\* AcceptOutcome that goes on whatever the SELECT returns
AcceptOutcomeNoSelect(o, caller) ==
    IF caller = "" THEN "uid_required"
    ELSE IF caller \notin Restaurants THEN "uid_unknown"
    ELSE "proceed"

\* The checks of accept up to the SELECT.
AcceptOutcome(o, caller) ==
    IF caller = "" THEN "uid_required"
    ELSE IF caller \notin Restaurants THEN "uid_unknown"       \* validateRestaurantUid throws
    ELSE IF ~PendingOrderOf(o, caller) THEN "not_pending"
    ELSE "proceed"

RejectOutcome(o, caller, reason) ==
    IF caller = "" THEN "uid_required"
    ELSE IF reason = <<>> \/ Trim(reason) = <<>> THEN "reason_required"
    ELSE IF caller \notin Restaurants THEN "uid_unknown"
    ELSE IF ~PendingOrderOf(o, caller) THEN "not_pending"
    ELSE "proceed"

RefusalCode(w) ==
    CASE w = "uid_required" -> 400
      [] w = "reason_required" -> 400
      [] w = "uid_unknown" -> 500
      [] w = "not_pending" -> 404

\* accept and reject look the timer up under Number.parseInt(orderId)
ResponseTimerKey(o) == NumKey(o)

\* if (orderTimers.has(k)) { clearTimeout(orderTimers.get(k)); orderTimers.delete(k) }
ClearTimer(k) ==
    IF MapHas(orderTimers, k)
        THEN /\ timers' = [timers EXCEPT ![orderTimers[k]] = 0]
             /\ firesAt' = [firesAt EXCEPT ![orderTimers[k]] = 0]
             /\ orderTimers' = MapDelete(orderTimers, k)
        ELSE UNCHANGED <<timers, orderTimers, firesAt>>

\* The checks, then the timer is cleared and the UPDATE is sent.
AcceptRead(o, caller) ==
    LET w == AcceptOutcome(o, caller) IN
    /\ Receive
    /\ w = "proceed" => CanAdmit
    /\ IF w = "proceed"
          THEN /\ ClearTimer(ResponseTimerKey(o))
               /\ inflight' = Suspend(Frame("accept", "write", o, NULL, NULL, FALSE, NULL, <<>>))
               /\ out' = NoOut
          ELSE /\ out' = Answer("accept", o, RefusalCode(w), w, {})
               /\ UNCHANGED <<timers, orderTimers, inflight, firesAt>>
    /\ UNCHANGED <<orders, restaurant, newOrderBy, accepted, now>>

\* A response-window timer of the order is scheduled and none has fired yet.
TimerUnfired(o) ==
    /\ \E t \in TimerIds : timers[t] = o
    /\ \A g \in BagToSet(inflight) : ~(g.kind = "timer" /\ g.order = o)

\* UPDATE orders SET status = 'preparing' WHERE id = ?, the events, the answer
AcceptWrite(f) ==
    /\ f.kind = "accept" /\ f.pc = "write"
    /\ orders' = SetRow(f.order, [orders[f.order] EXCEPT !.status = "preparing"])
    /\ inflight' = Finish(f)
    /\ accepted' = IF TimerUnfired(f.order) THEN accepted \cup {f.order} ELSE accepted
    /\ out' = Answer("accept", f.order, 200, "Order accepted successfully",
                     {<<"restaurant", "orderAccepted">>, <<"customer", "orderStatusUpdated">>})
    /\ UNCHANGED <<restaurant, timers, orderTimers, newOrderBy, requests, now, firesAt>>

Accept ==
    \/ \E o \in OrderIds, caller \in Callers : AcceptRead(o, caller)
    \/ \E f \in BagToSet(inflight) : AcceptWrite(f)

RejectRead(o, caller, reason) ==
    LET w == RejectOutcome(o, caller, reason) IN
    /\ Receive
    /\ w = "proceed" => CanAdmit
    /\ IF w = "proceed"
          THEN /\ ClearTimer(ResponseTimerKey(o))
               /\ inflight' = Suspend(Frame("reject", "write", o, NULL, NULL, FALSE, NULL,
                                            Trim(reason)))
               /\ out' = NoOut
          ELSE /\ out' = Answer("reject", o, RefusalCode(w), w, {})
               /\ UNCHANGED <<timers, orderTimers, inflight, firesAt>>
    /\ UNCHANGED <<orders, restaurant, newOrderBy, accepted, now>>

\* UPDATE orders SET status = 'rejected', rejection_reason = ?, auto_rejected = FALSE,
\* the events, the answer
RejectWrite(f) ==
    /\ f.kind = "reject" /\ f.pc = "write"
    /\ orders' = SetRow(f.order, [orders[f.order] EXCEPT !.status = "rejected",
                                                         !.rejection_reason = f.reason,
                                                         !.auto_rejected = "FALSE"])
    /\ inflight' = Finish(f)
    /\ out' = Answer("reject", f.order, 200, "Order rejected successfully",
                     {<<"restaurant", "orderRejected">>, <<"customer", "orderStatusUpdated">>})
    /\ UNCHANGED <<restaurant, timers, orderTimers, newOrderBy, accepted, requests, now, firesAt>>

Reject ==
    \/ \E o \in OrderIds, caller \in Callers, reason \in Reasons : RejectRead(o, caller, reason)
    \/ \E f \in BagToSet(inflight) : RejectWrite(f)

-----------------------------------------------------------------------------
(* PUT /api/orders/:id/status *)

Allowed == {"pending", "preparing", "ready", "on_the_way", "delivered", "cancelled", "rejected"}

StatusInputs == Allowed \cup {NULL, "payment_pending"}

\* The checks of the handler up to its UPDATE.
StatusOutcome(o, status) ==
    IF status = NULL \/ status \notin Allowed THEN "invalid_status"
    ELSE IF ~Exists(o) THEN "not_found"
    ELSE IF orders[o].status = "pending" /\ status \notin {"preparing", "rejected", "cancelled"}
        THEN "pending_only_accept_reject_cancel"
    ELSE IF orders[o].status = "pending" /\ status \in {"preparing", "rejected"}
        THEN "use_accept_or_reject"
    ELSE "update"

StatusRefusalCode(w) ==
    CASE w = "invalid_status" -> 400
      [] w = "not_found" -> 404
      [] w = "pending_only_accept_reject_cancel" -> 400
      [] w = "use_accept_or_reject" -> 400

StatusRead(o, status) ==
    LET w == StatusOutcome(o, status) IN
    /\ Receive
    /\ w = "update" => CanAdmit
    /\ IF w = "update"
          THEN /\ inflight' = Suspend(Frame("status", "write", o, NULL, NULL, FALSE, status, <<>>))
               /\ out' = NoOut
          ELSE /\ inflight' = inflight
               /\ out' = Answer("status", o, StatusRefusalCode(w), w, {})
    /\ UNCHANGED <<orders, restaurant, timers, orderTimers, newOrderBy, accepted, now, firesAt>>

\* The UPDATE, the events and the commit: the row is locked from the UPDATE to
\* the commit, so the write becomes visible to the other handlers at one instant.
StatusWrite(f) ==
    /\ f.kind = "status" /\ f.pc = "write"
    /\ orders' = SetRow(f.order, [orders[f.order] EXCEPT !.status = f.target])
    /\ inflight' = Finish(f)
    /\ out' = Answer("status", f.order, 200, "Status updated",
                     {<<"restaurant", "orderStatusUpdated">>, <<"customer", "orderStatusUpdated">>}
                     \cup (IF f.target = "delivered" /\ restaurant.order_notifications # 0
                              THEN {<<"push", "orderStatusUpdated">>} ELSE {}))
    /\ UNCHANGED <<restaurant, timers, orderTimers, newOrderBy, accepted, requests, now, firesAt>>

UpdateOrderStatus ==
    \/ \E o \in OrderIds, status \in StatusInputs : StatusRead(o, status)
    \/ \E f \in BagToSet(inflight) : StatusWrite(f)

-----------------------------------------------------------------------------
(* autoRejectOrder, run by the Timeout the webhook scheduled *)

\* The callbacks of fired Timeouts that have not returned yet.
RunningCallbacks ==
    LET frames == {g \in BagToSet(inflight) : g.kind = "timer"}
        n[S \in SUBSET frames] ==
            IF S = {} THEN 0
            ELSE LET g == CHOOSE x \in S : TRUE
                 IN  CopiesIn(g, inflight) + n[S \ {g}]
    IN  n[frames]

\* The callback deletes the key it was scheduled with, the webhook's string.
AutoRejectKey(o) == StrKey(o)

\* StillPending without the status test
StillPendingAnyStatus(o) == Exists(o)

\* existing.length > 0 of SELECT * FROM orders WHERE id = ? AND status = 'pending'
StillPending(o) == Exists(o) /\ orders[o].status = "pending"

\* The Timeout fires and autoRejectOrder makes its SELECT.
TimerFire(t) ==
    LET o == timers[t] IN
    /\ o # 0
    /\ timers' = [timers EXCEPT ![t] = 0]
    /\ firesAt' = [firesAt EXCEPT ![t] = 0]
    /\ IF StillPending(o)
          THEN /\ RunningCallbacks < MaxTimers
               /\ inflight' = Suspend(Frame("timer", "write", o, NULL, NULL, FALSE, NULL, <<>>))
               /\ out' = NoOut
          ELSE /\ inflight' = inflight
               /\ out' = Answer("timer", o, 0, "already processed or not found", {})
    /\ UNCHANGED <<orders, restaurant, orderTimers, newOrderBy, accepted, requests, now>>

\* UPDATE orders SET status = 'rejected', rejection_reason = ?, auto_rejected = TRUE
TimerWrite(f) ==
    /\ f.kind = "timer" /\ f.pc = "write"
    /\ orders' = SetRow(f.order, [orders[f.order] EXCEPT !.status = "rejected",
                                                         !.rejection_reason = AutoRejectReason,
                                                         !.auto_rejected = "TRUE"])
    /\ inflight' = Resume(f, [f EXCEPT !.pc = "emit"])
    /\ out' = NoOut
    /\ UNCHANGED <<restaurant, timers, orderTimers, newOrderBy, accepted, requests, now, firesAt>>

\* SELECT the row again, emit to both rooms, orderTimers.delete(orderId)
TimerEmit(f) ==
    /\ f.kind = "timer" /\ f.pc = "emit"
    /\ inflight' = Finish(f)
    /\ orderTimers' = MapDelete(orderTimers, AutoRejectKey(f.order))
    /\ out' = Answer("timer", f.order, 0, "auto-rejected",
                     {<<"restaurant", "orderAutoRejected">>, <<"customer", "orderStatusUpdated">>})
    /\ UNCHANGED <<orders, restaurant, timers, newOrderBy, accepted, requests, now, firesAt>>

AutoReject ==
    \/ \E t \in TimerIds : TimerFire(t)
    \/ \E f \in BagToSet(inflight) : TimerWrite(f)
    \/ \E f \in BagToSet(inflight) : TimerEmit(f)

-----------------------------------------------------------------------------
Next ==
    \/ CreateOrder
    \/ SetOnline
    \/ SetNotificationPreferences
    \/ VerifyPayment
    \/ Webhook
    \/ Accept
    \/ Reject
    \/ UpdateOrderStatus
    \/ AutoReject

Spec == Init /\ [][Next]_vars

\* The requests of a restaurant that stays online and neither accepts nor
\* rejects: orders are created and their payments confirmed, timers run.
LiveNext ==
    \/ CreateOrder
    \/ \E o \in OrderIds : VerifyRead(o)
    \/ \E f \in BagToSet(inflight) : VerifyGatewayError(f)
    \/ \E f \in BagToSet(inflight) :
          /\ f.kind = "verify" /\ f.pc = "gateway"
          /\ \E payments \in PaymentLists(orders[f.order].total_price) :
                VerifyGateway(f, payments)
    \/ \E p \in Payloads : WebhookRead(p)
    \/ \E f \in BagToSet(inflight) : WebhookWrite(f)
    \/ \E f \in BagToSet(inflight) : WebhookNotify(f)
    \/ AutoReject

\* Every awaited call returns and every scheduled Timeout fires; nothing obliges
\* a client to send a request.
HandlerStep ==
    \/ \E f \in BagToSet(inflight) : VerifyGatewayError(f)
    \/ \E f \in BagToSet(inflight) :
          /\ f.kind = "verify" /\ f.pc = "gateway"
          /\ \E payments \in PaymentLists(orders[f.order].total_price) :
                VerifyGateway(f, payments)
    \/ \E f \in BagToSet(inflight) : WebhookWrite(f)
    \/ \E f \in BagToSet(inflight) : WebhookNotify(f)
    \/ \E f \in BagToSet(inflight) : TimerWrite(f)
    \/ \E f \in BagToSet(inflight) : TimerEmit(f)

LiveSpec ==
    /\ Init
    /\ [][LiveNext]_vars
    /\ WF_vars(HandlerStep)
    /\ \A t \in TimerIds : WF_vars(TimerFire(t))

\* createOrder alone, over the price inputs
PriceSpec == Init /\ [][CreateOrderPriced]_vars

\* The Timeouts that are scheduled and have not fired.
Scheduled == {t \in TimerIds : timers[t] # 0}

\* Time passes, up to the moment the next Timeout is due.
Tick ==
    \E d \in {TickSeconds} \cup {firesAt[t] - now : t \in Scheduled} :
        /\ d > 0
        /\ now + d <= MaxTime
        /\ \A t \in Scheduled : now + d <= firesAt[t]
        /\ now' = now + d
        /\ out' = NoOut
        /\ UNCHANGED <<orders, restaurant, inflight, timers, orderTimers, newOrderBy,
                       accepted, requests, firesAt>>

\* The Timeout fires when its delay has elapsed.
TimerDue(t) == now = firesAt[t] /\ TimerFire(t)

\* Orders are created and paid through the webhook while the clock runs and
\* the Timeouts fire when they are due.
DeadlineNext ==
    \/ CreateOrder
    \/ \E p \in Payloads : WebhookRead(p)
    \/ \E f \in BagToSet(inflight) : WebhookWrite(f)
    \/ \E f \in BagToSet(inflight) : WebhookNotify(f)
    \/ Tick
    \/ \E t \in TimerIds : TimerDue(t)
    \/ \E f \in BagToSet(inflight) : TimerWrite(f)
    \/ \E f \in BagToSet(inflight) : TimerEmit(f)

DeadlineSpec == Init /\ [][DeadlineNext]_vars

\* the extraction of the webhook alone
ExtractSpec == Init /\ [][WebhookParse]_vars

\* createOrder alone, over the item inputs
ItemSpec == Init /\ [][CreateOrderItems]_vars

-----------------------------------------------------------------------------
(* Properties *)

NewOrders(o) == newOrderBy[o].verify + newOrderBy[o].webhook

Paid(o) == Exists(o) /\ orders[o].payment_status = "success"

AutoRejected(o) ==
    Exists(o) /\ orders[o].status = "rejected" /\ orders[o].auto_rejected = "TRUE"

\* the payloads by the order id they carry; the webhook names it in its answer
PayloadsOf == [o \in {0} \cup OrderIds |-> {p \in Payloads : p.order_id = o}]

\* A webhook for order o arrives in this step.
WebhookFor(o) == \E p \in PayloadsOf[o] : ~p.empty /\ WebhookRead(p)

\* C1: when verifyPayment and the webhook both confirm the same order, the
\* restaurant's newOrder is not published by both of them.
C1_OnePublishPerOrder ==
    \A o \in OrderIds : ~(newOrderBy[o].verify >= 1 /\ newOrderBy[o].webhook >= 1)

\* C2: a verifyPayment or webhook call that finds the order's payment_status
\* already success ends at once: it writes nothing to the order, publishes no
\* newOrder, starts no timer and leaves no handler behind that could.
C2_SecondConfirmationIsNoop ==
    [][requests' # requests =>
       \A o \in OrderIds :
          (/\ Paid(o)
           /\ \/ out'.op \in {"verify", "none"} /\ VerifyRead(o)
              \/ out'.op \in {"webhook", "none"} /\ WebhookFor(o))
          => /\ orders' = orders
             /\ newOrderBy' = newOrderBy
             /\ timers' = timers /\ orderTimers' = orderTimers
             /\ inflight' = inflight
             /\ out'.code = 200 /\ out'.events = {}]_vars

C2_Witness ==
    \E o \in OrderIds :
        /\ Paid(o) /\ NewOrders(o) = 1 /\ newOrderBy[o].verify = 1
        /\ out.op = "webhook" /\ out.order = o /\ out.msg = "Payment already processed"

\* C3: a webhook reporting SUCCESS for a payment_pending order with an amount
\* more than 0.02 away from the stored total goes on to write
\* payment_status = failed, status = cancelled, without notifying.
C3_MismatchCancels ==
    [][\A p \in Payloads :
          (/\ WebhookRead(p)
           /\ p.payment_status = "SUCCESS" /\ Exists(p.order_id)
           /\ orders[p.order_id].status = "payment_pending"
           /\ p.payment_amount # Missing
           /\ Abs(p.payment_amount - orders[p.order_id].total_price) > Tolerance)
          => \E f \in BagToSet(inflight') :
                /\ f.kind = "webhook" /\ f.order = p.order_id /\ f.pc = "write"
                /\ f.ps = "failed" /\ f.os = "cancelled" /\ ~f.notify]_vars

NoSuccessfulAttempt(payments) ==
    \A i \in 1..Len(payments) : payments[i].payment_status # "SUCCESS"

\* the list's first SUCCESS attempt carries an amount more than 0.02 off the total
SuccessfulAttemptOff(payments, total) ==
    \E i \in 1..Len(payments) :
        /\ payments[i].payment_status = "SUCCESS"
        /\ \A j \in 1..(i - 1) : payments[j].payment_status # "SUCCESS"
        /\ payments[i].payment_amount # Missing
        /\ \/ payments[i].payment_amount - total > Tolerance
           \/ total - payments[i].payment_amount > Tolerance

\* the totals createOrder stores
Totals == {ExpectedTotal(MenuPrice)}

\* the attempts found in the lists of C4: none, or a SUCCESS attempt that is off
FailingFinds ==
    [total \in Totals |->
        {SuccessfulPayment(payments) :
            payments \in {p \in PaymentLists(total) :
                             NoSuccessfulAttempt(p) \/ SuccessfulAttemptOff(p, total)}}]

\* C4: when the gateway's list holds no SUCCESS attempt, or the amount of its
\* successful attempt is more than 0.02 away from the order's total,
\* verifyPayment sets payment_status = failed, status = cancelled, and ends
\* without a newOrder to the restaurant.
C4_VerifyFailureCancels ==
    [][\A f \in BagToSet(inflight) :
          (/\ f.kind = "verify" /\ f.pc = "gateway"
           /\ out'.op = "verify" /\ out'.order = f.order) =>
             \/ /\ orders'[f.order].status = "cancelled"
                /\ orders'[f.order].payment_status = "failed"
                /\ newOrderBy' = newOrderBy
                /\ <<"restaurant", "newOrder">> \notin out'.events
                /\ timers' = timers
                /\ inflight' = Finish(f)
             \/ \A found \in FailingFinds[orders[f.order].total_price] :
                   ~VerifySettle(f, found)]_vars

C4_Witness ==
    \E o \in OrderIds :
        /\ Exists(o)
        /\ out.op = "verify" /\ out.order = o /\ out.msg = "Payment amount mismatch"
        /\ orders[o].status = "cancelled" /\ orders[o].payment_status = "failed"
        /\ NewOrders(o) = 0

PostPayment == {"pending", "preparing", "ready", "on_the_way", "delivered"}

\* C5: an order in a post-payment status has payment_status = success.
C5_PaidBeforeProgress ==
    \A o \in OrderIds :
        (Exists(o) /\ orders[o].status \in PostPayment) => orders[o].payment_status = "success"

\* C6: updateOrderStatus on a pending order with target preparing or rejected is
\* refused; every pending -> preparing transition is the write of an accept, and
\* every pending -> rejected transition the write of a reject or of the timer.
C6_OnlyAcceptRejectLeavePending ==
    [][\A o \in OrderIds :
          (Exists(o) /\ orders[o].status = "pending") =>
             /\ \A status \in {"preparing", "rejected"} :
                   StatusRead(o, status) =>
                      orders' = orders /\ inflight' = inflight /\ out'.code = 400
             /\ orders'[o].status = "preparing" =>
                   \E f \in BagToSet(inflight) : f.order = o /\ AcceptWrite(f)
             /\ orders'[o].status = "rejected" =>
                   \E f \in BagToSet(inflight) :
                       f.order = o /\ (RejectWrite(f) \/ TimerWrite(f))]_vars

Terminal == {"cancelled", "rejected", "delivered"}

\* C7: once cancelled, rejected or delivered, an order's status never changes.
C7_TerminalIsAbsorbing ==
    [][\A o \in OrderIds :
          (Exists(o) /\ orders[o].status \in Terminal)
          => orders'[o].status = orders[o].status]_vars

Rank(status) ==
    CASE status = "preparing" -> 1
      [] status = "ready" -> 2
      [] status = "on_the_way" -> 3
      [] status = "delivered" -> 4

\* from -> to is a move along preparing, ready, on_the_way, delivered, or a cancel
ForwardOrCancel(from, to) ==
    \/ from \notin Terminal /\ to = "cancelled"
    \/ /\ from \in {"preparing", "ready", "on_the_way"}
       /\ to \in {"ready", "on_the_way", "delivered"}
       /\ Rank(from) < Rank(to)

\* C8: updateOrderStatus on an order in preparing, ready, on_the_way or a
\* terminal status refuses every target that would change the status other than
\* by a forward move or a cancel.
C8_StatusOnlyForward ==
    [][\A o \in OrderIds, status \in Allowed :
          (/\ StatusRead(o, status)
           /\ Exists(o)
           /\ orders[o].status \in {"preparing", "ready", "on_the_way"} \cup Terminal
           /\ status # orders[o].status
           /\ ~ForwardOrCancel(orders[o].status, status))
          => inflight' = inflight /\ out'.code = 400]_vars

\* verifyPayment or the webhook has just confirmed order o's payment and
\* published newOrder to the restaurant, and no other request is in progress.
ConfirmedNow(o) ==
    /\ Paid(o) /\ orders[o].status = "pending"
    /\ inflight = EmptyBag
    /\ out.op \in {"verify", "webhook"} /\ out.order = o
    /\ <<"restaurant", "newOrder">> \in out.events

\* C9: once an order's payment is confirmed with the restaurant online, and the
\* restaurant neither accepts nor rejects it, the order is eventually rejected
\* with auto_rejected = TRUE.
C9_EventuallyAutoRejected ==
    \A o \in OrderIds : ConfirmedNow(o) ~> AutoRejected(o)

\* C10: an order whose accept succeeded before its timer fired is never
\* auto-rejected afterwards.
C10_AcceptedNeverAutoRejected ==
    \A o \in accepted : ~AutoRejected(o)

NotPaid(o) == Exists(o) /\ orders[o].payment_status \in {"failed", "cancelled"}

\* C11: a verifyPayment or webhook call that finds the order's payment_status
\* failed or cancelled ends at once, whatever status is reported: it writes
\* nothing to the order, publishes nothing and leaves no handler behind.
C11_FailedPaymentIsFinal ==
    [][\A o \in OrderIds :
          (NotPaid(o) /\ (VerifyRead(o) \/ WebhookFor(o)))
          => /\ orders' = orders
             /\ newOrderBy' = newOrderBy
             /\ timers' = timers /\ orderTimers' = orderTimers
             /\ inflight' = inflight
             /\ <<"restaurant", "newOrder">> \notin out'.events]_vars

\* a Timeout is scheduled in this step
TimerStarted == \E t \in TimerIds : timers[t] = 0 /\ timers'[t] # 0

\* the answer of a handler that confirmed order o's payment as successful
ConfirmationAnswered(o) ==
    /\ out'.order = o
    /\ \/ out'.op = "verify" /\ out'.msg = "Payment verified successfully"
       \/ /\ out'.op = "webhook" /\ out'.msg = "Webhook processed"
          /\ \E f \in BagToSet(inflight) :
                /\ f.kind = "webhook" /\ f.order = o /\ f.notify /\ f.ps = "success"
                /\ inflight' = Finish(f)

\* C12: while the restaurant is offline or has order notifications disabled, no
\* newOrder is published or pushed and no timer is started, and a handler that
\* confirmed a payment answers with the order in pending_restaurant_online.
C12_OfflineRestaurantNotNotified ==
    [][~RestaurantReachable =>
          /\ newOrderBy' = newOrderBy
          /\ ~TimerStarted
          /\ <<"restaurant", "newOrder">> \notin out'.events
          /\ <<"push", "newOrder">> \notin out'.events
          /\ \A o \in OrderIds :
                ConfirmationAnswered(o) => orders'[o].status = "pending_restaurant_online"]_vars

\* C13: every answer of the webhook handler is an HTTP 200.
C13_WebhookAlwaysAcknowledges ==
    out.op = "webhook" => out.code = 200

C13_Witness ==
    /\ out.op = "webhook" /\ out.code = 200
    /\ out.msg = "Webhook received but processing failed"

\* an amount that is absent, or within 0.02 of the total
AmountAcceptable(amount, total) ==
    amount = Missing \/ (amount - total <= Tolerance /\ total - amount <= Tolerance)

\* the frame this step suspended, if it is one that will notify the restaurant
NotifyingFrameAdded ==
    \E f \in BagToSet(inflight') :
        /\ f.kind = "webhook" /\ f.notify
        /\ CopiesIn(f, inflight') > CopiesIn(f, inflight)

\* C14: newOrder is published only by a confirmation handler that has written
\* payment_status = success for a payment reported successful whose amount is
\* not off the stored total by more than 0.02; never at creation, nor for a
\* failed, cancelled or amount-mismatched payment.
C14_NewOrderOnlyAfterValidPayment ==
    [][/\ \A o \in OrderIds :
             newOrderBy'[o] # newOrderBy[o] =>
                /\ Exists(o)
                /\ \E f \in BagToSet(inflight) :
                      /\ f.order = o
                      /\ \/ /\ f.kind = "verify" /\ orders'[o].payment_status = "success"
                            /\ \E a \in AttemptAmounts(orders[o].total_price) :
                                  /\ AmountAcceptable(a, orders[o].total_price)
                                  /\ VerifySettle(f, [payment_status |-> "SUCCESS",
                                                      payment_amount |-> a])
                         \/ /\ f.kind = "webhook" /\ f.pc = "notify" /\ f.ps = "success"
                            /\ WebhookNotify(f)
       /\ \A p \in Payloads :
             (WebhookRead(p) /\ NotifyingFrameAdded) =>
                /\ p.payment_status \in {"SUCCESS", "PAID"}
                /\ AmountAcceptable(p.payment_amount, orders[p.order_id].total_price)]_vars

\* the declared amounts of a submission are within the tolerances of the
\* amounts recomputed from the menu
PricesAgree(in) ==
    LET calculatedSubtotal == CalculatedSubtotal(in.items)
        d1 == calculatedSubtotal - in.subtotal
        d2 == ExpectedTotal(calculatedSubtotal) - in.total_amount
    IN  /\ d1 <= SubtotalTolerance /\ -d1 <= SubtotalTolerance
        /\ d2 <= Tolerance /\ -d2 <= Tolerance

\* C15: createOrder persists nothing and fails when the declared subtotal is
\* more than 0.01, or the declared total more than 0.02, off the recomputed
\* amount; otherwise it succeeds and persists one order in payment_pending with
\* payment_status pending.
C15_PriceCheckDecides ==
    [][\A in \in PriceInputs :
          (CreateOrderStep(in) /\ in.gatewayOk) =>
             IF PricesAgree(in)
                THEN /\ out'.code = 201
                     /\ Len(orders') = Len(orders) + 1
                     /\ orders'[Len(orders')].status = "payment_pending"
                     /\ orders'[Len(orders')].payment_status = "pending"
                ELSE out'.code # 201 /\ orders' = orders]_vars

\* C16: with a recomputed subtotal of 480, createOrder accepts the total 529.00
\* and refuses the total 520.00 as a price mismatch.
C16_Scenario480 ==
    [][\A in \in PriceInputs :
          (/\ CreateOrderStep(in) /\ in.gatewayOk
           /\ CalculatedSubtotal(in.items) = 48000 /\ in.subtotal = 48000)
          => /\ in.total_amount = 52900 =>
                   out'.code = 201 /\ orders'[Len(orders')].status = "payment_pending"
             /\ in.total_amount = 52000 =>
                   out'.msg = "Total mismatch" /\ orders' = orders]_vars

\* the valid submissions whose gateway call fails
GatewayFailing ==
    {in \in CreateInputs : /\ in.restaurantFound /\ in.customerFound /\ ItemsFound(in.items)
                           /\ PricesAgree(in) /\ ~in.gatewayOk}

\* C17: when the gateway call of createOrder fails, the order stays, committed
\* with status cancelled and payment_status failed, the client gets a failure
\* and the restaurant nothing.
C17_GatewayFailureKeepsOrder ==
    [][(out'.op = "createOrder" /\ restaurant.is_online = 1) =>
       \A in \in GatewayFailing :
          CreateOrderStep(in)
          => /\ Len(orders') = Len(orders) + 1
             /\ orders'[Len(orders')].status = "cancelled"
             /\ orders'[Len(orders')].payment_status = "failed"
             /\ out'.code >= 400
             /\ out'.events = {}
             /\ newOrderBy' = newOrderBy /\ timers' = timers]_vars

C17_Witness ==
    /\ out.op = "createOrder" /\ out.code = 500
    /\ out.msg = "Payment processing unavailable"
    /\ Exists(out.order)
    /\ orders[out.order].status = "cancelled"
    /\ orders[out.order].payment_status = "failed"

\* C18: accept refuses, and changes neither the order nor a timer and publishes
\* nothing, unless the order is pending and belongs to the caller; the write of
\* accept changes a pending order only, to preparing.
C18_AcceptOnlyPendingOwned ==
    [][/\ \A o \in OrderIds, caller \in Callers :
             (AcceptRead(o, caller) /\ ~PendingOrderOf(o, caller))
             => /\ out'.code >= 400 /\ out'.events = {}
                /\ orders' = orders /\ timers' = timers /\ orderTimers' = orderTimers
                /\ inflight' = inflight
       /\ \A f \in BagToSet(inflight) :
             AcceptWrite(f) => /\ orders[f.order].status = "pending"
                               /\ orders'[f.order].status = "preparing"]_vars

\* a reason that is empty or whitespace only
Blank(reason) == \A i \in 1..Len(reason) : reason[i] = " "

BlankReasons == {reason \in Reasons : Blank(reason)}

\* C19: reject with a missing, empty or whitespace-only reason is refused
\* before any write, order and timer unchanged; the write of a reject sets
\* status rejected, the reason without its surrounding whitespace, and
\* auto_rejected FALSE.
C19_RejectNeedsReason ==
    [][/\ out'.op \in {"reject", "none"} =>
             \A o \in OrderIds, caller \in Callers, reason \in BlankReasons :
                RejectRead(o, caller, reason)
                => /\ out'.code = 400
                   /\ orders' = orders /\ timers' = timers /\ orderTimers' = orderTimers
                   /\ inflight' = inflight
       /\ \A f \in BagToSet(inflight) :
             RejectWrite(f) =>
                LET row == orders'[f.order] IN
                /\ row.status = "rejected"
                /\ row.auto_rejected = "FALSE"
                /\ row.rejection_reason # <<>>
                /\ row.rejection_reason[1] # " "
                /\ row.rejection_reason[Len(row.rejection_reason)] # " "
                /\ \E reason \in Reasons :
                      \E i \in 0..Len(reason) :
                         \E j \in i..Len(reason) :
                            /\ row.rejection_reason = SubSeq(reason, i + 1, j)
                            /\ Blank(SubSeq(reason, 1, i))
                            /\ Blank(SubSeq(reason, j + 1, Len(reason)))
                /\ out'.code = 200]_vars

C19_Witness ==
    /\ out.op = "reject" /\ out.code = 200
    /\ Exists(out.order)
    /\ orders[out.order].status = "rejected"
    /\ orders[out.order].rejection_reason = <<"a">>
    /\ orders[out.order].auto_rejected = "FALSE"

RejectedAs(o, flag) ==
    Exists(o) /\ orders[o].status = "rejected" /\ orders[o].auto_rejected = flag

\* C20: auto_rejected tells who rejected a rejected order: the timer's write
\* sets it TRUE, the write of a successful reject sets it FALSE, no other step
\* changes it, and neither write lands on an order the other party has
\* rejected, in whatever order timer and reject are interleaved.
C20_AutoRejectedTellsWho ==
    [][/\ \A f \in BagToSet(inflight) :
             /\ TimerWrite(f) => /\ orders'[f.order].auto_rejected = "TRUE"
                                 /\ ~RejectedAs(f.order, "FALSE")
             /\ RejectWrite(f) => /\ orders'[f.order].auto_rejected = "FALSE"
                                  /\ out'.code = 200
                                  /\ ~RejectedAs(f.order, "TRUE")
       /\ \A o \in OrderIds :
             (Exists(o) /\ orders'[o].auto_rejected # orders[o].auto_rejected)
             => \E f \in BagToSet(inflight) :
                   f.order = o /\ (TimerWrite(f) \/ RejectWrite(f))]_vars

\* C21: of the timer, an accept and a reject racing for one pending order only
\* one completes the move out of pending: each of their writes finds the
\* order still pending.
C21_OneWinnerOutOfPending ==
    [][\A f \in BagToSet(inflight) :
          (TimerWrite(f) \/ AcceptWrite(f) \/ RejectWrite(f))
          => orders[f.order].status = "pending"]_vars

LiveTimers(o) == {t \in TimerIds : timers[t] = o}

\* C22: at most one response-window timer is live per order.
C22_OneTimerPerOrder ==
    \A o \in OrderIds : Cardinality(LiveTimers(o)) <= 1

\* C23: when accept or reject performs its status write, the timer the webhook
\* started for the order has been cancelled and its entry removed from the map.
C23_ResponseCancelsTimer ==
    [][\A f \in BagToSet(inflight) :
          (AcceptWrite(f) \/ RejectWrite(f))
          => /\ LiveTimers(f.order) = {}
             /\ ~MapHas(orderTimers, WebhookTimerKey(f.order))]_vars

\* C24: a confirmation through verifyPayment leaves what the webhook leaves for
\* the same payment: for a reachable restaurant the order pending, a
\* response-window timer running and newOrder published; for an unreachable
\* one the order pending_restaurant_online, no timer and no newOrder.
C24_VerifyMatchesWebhook ==
    [][\A o \in OrderIds :
          (/\ out'.op = "verify" /\ out'.order = o
           /\ out'.msg = "Payment verified successfully")
          => /\ orders'[o].payment_status = "success"
             /\ IF RestaurantReachable
                   THEN /\ orders'[o].status = "pending"
                        /\ \E t \in TimerIds : timers'[t] = o
                        /\ <<"restaurant", "newOrder">> \in out'.events
                   ELSE /\ orders'[o].status = "pending_restaurant_online"
                        /\ timers' = timers
                        /\ <<"restaurant", "newOrder">> \notin out'.events]_vars

\* C25: a timer callback that finds its order no longer pending changes no
\* order and publishes nothing; one that finds it pending goes on to set it
\* rejected with the system's reason and auto_rejected TRUE and to publish one
\* event to the restaurant and one to the customer.
C25_TimerCallbackEffect ==
    [][/\ \A t \in TimerIds :
             (/\ timers[t] # 0 /\ timers'[t] = 0
              /\ TimerFire(t)
              /\ ~(Exists(timers[t]) /\ orders[timers[t]].status = "pending"))
             => /\ orders' = orders
                /\ inflight' = inflight
                /\ out'.events = {}
       /\ \A t \in TimerIds :
             (/\ timers[t] # 0 /\ timers'[t] = 0
              /\ TimerFire(t)
              /\ Exists(timers[t]) /\ orders[timers[t]].status = "pending")
             => /\ BagCardinality(inflight') = BagCardinality(inflight) + 1
                /\ \E f \in BagToSet(inflight') :
                      f.kind = "timer" /\ f.pc = "write" /\ f.order = timers[t]
       /\ \A f \in BagToSet(inflight) :
             /\ TimerWrite(f) =>
                   /\ orders'[f.order].status = "rejected"
                   /\ orders'[f.order].rejection_reason = AutoRejectReason
                   /\ orders'[f.order].auto_rejected = "TRUE"
                   /\ \E g \in BagToSet(inflight') :
                         g.kind = "timer" /\ g.pc = "emit" /\ g.order = f.order
             /\ TimerEmit(f) =>
                   out'.events = {<<"restaurant", "orderAutoRejected">>,
                                  <<"customer", "orderStatusUpdated">>}]_vars

C25_Witness ==
    /\ out.op = "timer" /\ out.msg = "already processed or not found"
    /\ Exists(out.order)
    /\ orders[out.order].status \in {"preparing", "rejected", "cancelled"}

\* a submission that fails at a step before the gateway call
FailsBeforeGateway(in) ==
    \/ ~in.restaurantFound
    \/ ~in.customerFound
    \/ ~ItemsFound(in.items)
    \/ ~PricesAgree(in)
    \/ ~in.itemInsertOk

\* C26: a createOrder that fails before the gateway call is rolled back:
\* afterwards no order row and no line item of the submission exists.
C26_FailureRollsBack ==
    [][out'.op = "createOrder" =>
       \A in \in ItemInputs :
          (FailsBeforeGateway(in) /\ CreateOrderStep(in))
          => orders' = orders /\ out'.code >= 400]_vars

C26_Witness ==
    /\ out.op = "createOrder" /\ out.code = 500
    /\ out.msg = "INSERT INTO order_items failed"
    /\ orders = <<>>

\* a menu item that exists, is available, is not soft-deleted and belongs to
\* the restaurant
Orderable(id, restaurant_uid) ==
    /\ id \in DOMAIN MenuItems
    /\ MenuItems[id].restaurant_uid = restaurant_uid
    /\ MenuItems[id].is_available = 1
    /\ MenuItems[id].is_deleted = 0

\* C27: the line items of every persisted order reference only orderable
\* items of the order's restaurant, and a submission naming any other item
\* creates no order.
C27_LineItemsOrderable ==
    [][/\ \A o \in 1..Len(orders') :
             \A i \in 1..Len(orders'[o].items) :
                Orderable(orders'[o].items[i].menu_item_id, orders'[o].restaurant_uid)
       /\ out'.op = "createOrder" =>
             \A in \in ItemInputs :
                (/\ \E i \in 1..Len(in.items) : ~Orderable(in.items[i].menu_item_id, Owner)
                 /\ CreateOrderStep(in))
                => orders' = orders /\ out'.code >= 400]_vars

C27_Witness ==
    \E o \in OrderIds :
        /\ Exists(o)
        /\ orders[o].status = "payment_pending"
        /\ orders[o].items = <<Item(1, 1), Item(5, 1)>>

\* nothing of the orders and timers changes and no handler is left to write
NothingMutated ==
    /\ orders' = orders
    /\ timers' = timers
    /\ orderTimers' = orderTimers
    /\ inflight' = inflight

\* C28: validation and not-found outcomes mutate nothing: verifyPayment for a
\* nonexistent order, a webhook with no or an unknown order id, accept or
\* reject without a restaurant uid or for an order not pending or not the
\* caller's, and updateOrderStatus with a missing or unknown status or a
\* nonexistent order leave every order and every timer as they were.  A
\* request that is refused changes nothing; a handler goes on to a write only
\* for an order that exists, accept and reject only for a pending one; and the
\* requests listed, for the order the answer names, are refused.
C28_RefusalsMutateNothing ==
    [][requests' # requests =>
       /\ (\/ out'.op \in {"verify", "accept", "reject", "status"} /\ out'.code >= 400
           \/ out'.op = "webhook" /\ out'.msg \in {"No order ID found", "Order not found"})
          => NothingMutated
       /\ out'.op = "none" =>
             \A f \in BagToSet(inflight') :
                CopiesIn(f, inflight') > CopiesIn(f, inflight)
                => /\ Exists(f.order)
                   /\ (f.kind \in {"accept", "reject"} => orders[f.order].status = "pending")
       /\ (/\ out'.op = "verify" /\ out'.order \in OrderIds
           /\ ~Exists(out'.order) /\ VerifyRead(out'.order))
          => NothingMutated /\ out'.code = 404
       /\ (out'.op = "webhook" /\ ~Exists(out'.order)) =>
             \A p \in PayloadsOf[out'.order] : WebhookRead(p) => NothingMutated
       /\ (out'.op = "accept" /\ out'.order \in OrderIds) =>
             \A caller \in Callers :
                (/\ caller = "" \/ ~PendingOrderOf(out'.order, caller)
                 /\ AcceptRead(out'.order, caller))
                => NothingMutated /\ out'.code >= 400
       /\ (out'.op = "status" /\ out'.order \in OrderIds) =>
             \A status \in StatusInputs :
                (/\ status = NULL \/ status \notin Allowed \/ ~Exists(out'.order)
                 /\ StatusRead(out'.order, status))
                => NothingMutated /\ out'.code >= 400]_vars

C28_Witness ==
    /\ out.op = "accept" /\ out.code = 404
    /\ Exists(out.order)
    /\ LiveTimers(out.order) # {}

\* the first truthy value of a list of values, Absent when there is none
FirstMatch(values) ==
    LET hits == {i \in 1..Len(values) : IsTruthy(values[i])}
    IN  IF hits = {} THEN Absent
        ELSE values[CHOOSE i \in hits : \A j \in hits : i <= j]

\* "order_" taken off the front of a string
Stripped(s) == IF s # <<>> /\ Head(s) = "order_" THEN Tail(s) ELSE s

\* C29: the extraction of the webhook is first-match-wins: the order id comes
\* from data.order.order_id, then order.order_id, then order_id, with the
\* prefix order_ stripped; the status from data.payment.payment_status, then
\* payment.payment_status, then payment_status, then data.order.order_status;
\* the amount from data.payment.payment_amount, then payment.payment_amount,
\* then data.order.order_amount; the earliest shape that holds a value decides.
C29_FirstMatchWins ==
    [][\A e \in out'.events :
          (out'.msg = "Extracted" /\ e[1] = "log") =>
             LET raw == e[2]
                 id == FirstMatch(<<raw.data_order_order_id, raw.order_order_id, raw.order_id>>)
                 status == FirstMatch(<<raw.data_payment_payment_status,
                                        raw.payment_payment_status, raw.payment_status,
                                        raw.data_order_order_status>>)
                 amount == FirstMatch(<<raw.data_payment_payment_amount,
                                        raw.payment_payment_amount,
                                        raw.data_order_order_amount>>)
             IN  /\ e[3] = IF id = Absent THEN Null ELSE Str(Stripped(toString(id)))
                 /\ e[4] = IF status = Absent THEN Null ELSE status
                 /\ e[5] = IF amount = Absent THEN Null ELSE ParseFloat(amount)]_vars

\* a body carrying all three shapes of the order id and the last two of the status
C29_Witness ==
    /\ out.msg = "Extracted"
    /\ \E e \in out.events :
          /\ e[1] = "log"
          /\ IsTruthy(e[2].data_order_order_id) /\ IsTruthy(e[2].order_order_id)
          /\ IsTruthy(e[2].order_id)
          /\ ~IsTruthy(e[2].data_payment_payment_status)
          /\ ~IsTruthy(e[2].payment_payment_status)
          /\ IsTruthy(e[2].payment_status) /\ IsTruthy(e[2].data_order_order_status)
          /\ e[3] = Str(<<"1">>) /\ e[4] = Str(<<"PENDING">>)

\* C30: in every reachable state status and payment_status agree: a failed or
\* cancelled payment has status cancelled, a pending payment has status
\* payment_pending, and a successful payment has a status other than
\* payment_pending.
C30_StatusMatchesPayment ==
    \A o \in OrderIds :
       Exists(o) =>
          /\ orders[o].payment_status \in {"failed", "cancelled"}
                => orders[o].status = "cancelled"
          /\ orders[o].payment_status = "pending"
                => orders[o].status = "payment_pending"
          /\ orders[o].payment_status = "success"
                => orders[o].status # "payment_pending"

\* a webhook frame whose payment status was none of SUCCESS, PAID, FAILED, CANCELLED
Unrecognised(f) == f.kind = "webhook" /\ f.ps = "pending" /\ f.os = "payment_pending"

\* C31: a webhook whose payment status is absent or none of SUCCESS, PAID,
\* FAILED, CANCELLED leaves the order's status and payment_status as they were
\* and notifies no restaurant, whatever state the order is in.
C31_UnrecognisedStatusChangesNothing ==
    [][\A f \in BagToSet(inflight) :
          (Unrecognised(f) /\ WebhookWrite(f)) =>
             /\ orders'[f.order].status = orders[f.order].status
             /\ orders'[f.order].payment_status = orders[f.order].payment_status
             /\ <<"restaurant", "newOrder">> \notin out'.events]_vars

\* C32: a SUCCESS or PAID webhook for a payment_pending order whose payload
\* carries no amount is never accepted as a confirmed payment: the handler does
\* not go on to write payment_status success / status pending and to notify
\* the restaurant.
C32_NoAmountNotConfirmed ==
    [][requests' # requests =>
       \A p \in Payloads :
          (/\ p.payment_status \in {"SUCCESS", "PAID"}
           /\ p.payment_amount = Missing
           /\ Exists(p.order_id)
           /\ orders[p.order_id].status = "payment_pending"
           /\ WebhookRead(p))
          => \A f \in BagToSet(inflight') :
                CopiesIn(f, inflight') > CopiesIn(f, inflight)
                => ~(f.kind = "webhook" /\ f.ps = "success" /\ f.notify)]_vars

\* C33: when the gateway call made by verifyPayment fails, the order is left
\* as it was (payment_pending / pending unless another request changed it
\* meanwhile), nothing is notified and no timer is started, and an order still
\* awaiting payment can still be confirmed by a later verifyPayment (no
\* short-circuit) or webhook (not taken for already processed).
C33_GatewayErrorLeavesOrder ==
    [][(out'.op = "verify" /\ out'.code = 500) =>
       \A f \in BagToSet(inflight) :
          VerifyGatewayError(f) =>
             /\ orders' = orders
             /\ out'.events = {}
             /\ newOrderBy' = newOrderBy
             /\ timers' = timers /\ orderTimers' = orderTimers
             /\ (/\ orders[f.order].status = "payment_pending"
                 /\ orders[f.order].payment_status = "pending")
                   => /\ orders'[f.order].status = "payment_pending"
                      /\ orders'[f.order].payment_status = "pending"
                      /\ VerifyShortCircuit(orders'[f.order]) = "continue"
                      /\ ~WebhookAlreadyProcessed(orders'[f.order])]_vars

\* the gateway call of a verification failed and the order still awaits payment
C33_Witness ==
    /\ out.op = "verify" /\ out.code = 500
    /\ out.msg = "Unable to verify payment with payment gateway"
    /\ Exists(out.order)
    /\ orders[out.order].status = "payment_pending"
    /\ orders[out.order].payment_status = "pending"

\* C34: every order in status rejected has a non-empty rejection_reason,
\* whatever operations brought it there.
C34_RejectedHasReason ==
    \A o \in OrderIds :
       (Exists(o) /\ orders[o].status = "rejected")
          => /\ orders[o].rejection_reason # NullText
             /\ orders[o].rejection_reason # <<>>

\* C35: the order_status that verifyPayment reports in its response equals the
\* order's stored status at that moment, the already-verified short-circuit
\* included.
C35_ReportedStatusIsStored ==
    [][\A o \in OrderIds :
          (out'.op = "verify" /\ out'.order = o /\ out'.order_status # NULL)
             => out'.order_status = orders'[o].status]_vars

\* C36: the response_deadline stored on an order and sent in the newOrder
\* event is not earlier than the moment the restaurant is notified and is the
\* moment the auto-reject timer fires (notification time plus the 90-second
\* window); an order is auto-rejected exactly at its response_deadline.
C36_DeadlineIsTimerTime ==
    [][\A f \in BagToSet(inflight) :
          /\ (WebhookNotify(f) /\ <<"restaurant", "newOrder">> \in out'.events)
                => /\ orders[f.order].response_deadline >= now
                   /\ orders[f.order].response_deadline = now + ResponseWindowSeconds
                   /\ \E t \in TimerIds :
                         /\ timers'[t] = f.order
                         /\ firesAt'[t] = orders[f.order].response_deadline
          /\ TimerWrite(f) => now = orders[f.order].response_deadline]_vars

\* the order's timer callback has started and not returned
CallbackRunning(o) == \E g \in BagToSet(inflight) : g.kind = "timer" /\ g.order = o

\* C37: the timer map holds an entry for an order id only while that order is
\* in status pending with a live, unfired timer: once accept, reject, a generic
\* cancel or the timer callback is over, no entry for that order remains.
C37_MapEntryOnlyWhilePending ==
    \A k \in DOMAIN orderTimers :
       LET o == k[2] IN
       \/ CallbackRunning(o)
       \/ /\ Exists(o)
          /\ orders[o].status = "pending"
          /\ timers[orderTimers[k]] = o

====
